---- MODULE Spec2Model ----
(***************************************************************************)
(* Model of serverless-app-client-credentials-to-ssm (src/index.js): the   *)
(* AppClientCredentialsExporter plugin.  A run of exportCredetialsToSSM    *)
(* lists the app clients of a Cognito user pool page by page, picks the    *)
(* one named in the plugin configuration, describes the pool and the       *)
(* client, reads the SSM parameter, and puts the merged document back.     *)
(***************************************************************************)
EXTENDS Integers, Sequences, FiniteSets, TLC

(***************************************************************************)
(* JavaScript values.  A value is a string, an object (an ordered list of  *)
(* key/value members, in insertion order) or undefined.                    *)
(***************************************************************************)
Undefined == [t |-> "undef", s |-> "", kv |-> <<>>]
Str(x) == [t |-> "str", s |-> x, kv |-> <<>>]
Obj(members) == [t |-> "obj", s |-> "", kv |-> members]
Member(key, val) == [k |-> key, v |-> val]
EmptyDoc == Obj(<<>>)

IsObj(val) == val.t = "obj"
Keys(val) == {val.kv[i].k : i \in 1..Len(val.kv)}
HasKey(val, key) == IsObj(val) /\ key \in Keys(val)

\* val[key]: the member's value, undefined when there is none
Get(val, key) ==
  IF HasKey(val, key)
    THEN val.kv[CHOOSE i \in 1..Len(val.kv) : val.kv[i].k = key].v
    ELSE Undefined

\* val[key] = x on an object: replaces in place, or appends a new member
Set(val, key, x) ==
  IF HasKey(val, key)
    THEN Obj([i \in 1..Len(val.kv) |->
               IF val.kv[i].k = key THEN Member(key, x) ELSE val.kv[i]])
    ELSE Obj(Append(val.kv, Member(key, x)))

\* JavaScript truthiness: undefined and "" are falsy, objects are truthy
Truthy(val) == val.t = "obj" \/ (val.t = "str" /\ val.s # "")

(***************************************************************************)
(* JSON text.  A text is a sequence of tokens: punctuation, whitespace     *)
(* and string literals.  JSON_stringify writes what                        *)
(* JSON.stringify(value, null, '\t') writes; JSON_parse reads what         *)
(* JSON.parse reads and reports a SyntaxError on anything else.            *)
(***************************************************************************)
Tok(kind, text) == [k |-> kind, v |-> text]
LBrace == Tok("punct", "{")
RBrace == Tok("punct", "}")
Colon == Tok("punct", ":")
Comma == Tok("punct", ",")
Newline == Tok("ws", "\n")
Tab == Tok("ws", "\t")
Space == Tok("ws", " ")
Quoted(x) == Tok("str", x)

\* a line break followed by depth copies of the indent '\t'
Indent(depth) == <<Newline>> \o [i \in 1..depth |-> Tab]

RECURSIVE StringifyValue(_, _)
RECURSIVE StringifyMembers(_, _, _, _)

\* members i.. of an object; members whose value is undefined are left out
StringifyMembers(members, i, depth, first) ==
  IF i > Len(members) THEN <<>>
  ELSE IF members[i].v.t = "undef"
    THEN StringifyMembers(members, i + 1, depth, first)
    ELSE (IF first THEN <<>> ELSE <<Comma>>)
         \o Indent(depth)
         \o <<Quoted(members[i].k), Colon, Space>>
         \o StringifyValue(members[i].v, depth)
         \o StringifyMembers(members, i + 1, depth, FALSE)

StringifyValue(val, depth) ==
  IF val.t = "str" THEN <<Quoted(val.s)>>
  ELSE IF StringifyMembers(val.kv, 1, depth + 1, TRUE) = <<>>
    THEN <<LBrace, RBrace>>
    ELSE <<LBrace>> \o StringifyMembers(val.kv, 1, depth + 1, TRUE)
         \o Indent(depth) \o <<RBrace>>

JSON_stringify(val) == StringifyValue(val, 0)

SyntaxError == [ok |-> FALSE, val |-> Undefined, next |-> 0]
Parsed(val, next) == [ok |-> TRUE, val |-> val, next |-> next]

\* the text without its whitespace, which JSON.parse skips between tokens
SkipWhitespace(text) == SelectSeq(text, LAMBDA tok : tok.k # "ws")

RECURSIVE ParseValue(_, _)
RECURSIVE ParseMembers(_, _, _)

\* "key": value { , "key": value } "}" starting at token i
ParseMembers(toks, i, acc) ==
  IF i + 1 > Len(toks) \/ toks[i].k # "str" \/ toks[i + 1] # Colon
    THEN SyntaxError
    ELSE LET r == ParseValue(toks, i + 2) IN
      IF ~r.ok \/ r.next > Len(toks) THEN SyntaxError
      ELSE IF toks[r.next] = Comma
        THEN ParseMembers(toks, r.next + 1, Set(acc, toks[i].v, r.val))
      ELSE IF toks[r.next] = RBrace
        THEN Parsed(Set(acc, toks[i].v, r.val), r.next + 1)
      ELSE SyntaxError

ParseValue(toks, i) ==
  IF i > Len(toks) THEN SyntaxError
  ELSE IF toks[i].k = "str" THEN Parsed(Str(toks[i].v), i + 1)
  ELSE IF toks[i] = LBrace
    THEN IF i + 1 <= Len(toks) /\ toks[i + 1] = RBrace
           THEN Parsed(EmptyDoc, i + 2)
           ELSE ParseMembers(toks, i + 1, EmptyDoc)
  ELSE SyntaxError

\* [ok, val]: the value of the text, or ok = FALSE for a SyntaxError
JSON_parse(text) ==
  LET toks == SkipWhitespace(text)
      r == ParseValue(toks, 1)
  IN IF r.ok /\ r.next = Len(toks) + 1
       THEN [ok |-> TRUE, val |-> r.val]
       ELSE [ok |-> FALSE, val |-> Undefined]

(***************************************************************************)
(* Bounds and the environment the plugin runs against.                     *)
(***************************************************************************)
\* the most pages a user pool's listing is split into
MaxPages == 3
\* the numbers of app clients a page of the listing may hold
PageSizes == {0, 1, 2}
\* the runs of the after:deploy:deploy hook
Runs == {"r1", "r2"}

PoolId == "pool-1"
ParameterName == "/config/app"
Region == "ap-southeast-2"
Domain == "idp-nonprod"
\* the configured app client name, "Ab", as its characters
TargetName == <<"A", "b">>
Secrets == {"s1", "s2"}

\* a configuration field that was left out of serverless.yml
Missing == [t |-> "undef", s |-> ""]
MissingName == [t |-> "undef", s |-> <<>>]
Given(x) == [t |-> "str", s |-> x]
\* !field is false: the field is there and is not the empty string
FieldSet(f) == f.t = "str" /\ Len(f.s) > 0

NoConfig == [present |-> FALSE, userPoolId |-> Missing,
             appClientName |-> MissingName, parameterName |-> Missing]
Config(pool, name, param) ==
  [present |-> TRUE, userPoolId |-> pool, appClientName |-> name,
   parameterName |-> param]
ValidConfig == Config(Given(PoolId), Given(TargetName), Given(ParameterName))
\* the contents of custom[PluginKey] in the service definitions considered
Configs ==
  { NoConfig, ValidConfig,
    Config(Missing, Given(TargetName), Given(ParameterName)),
    Config(Given(PoolId), Given(<<>>), Given(ParameterName)),
    Config(Given(PoolId), MissingName, Given(ParameterName)),
    Config(Given(PoolId), Given(TargetName), Missing),
    Config(Given(""), Given(TargetName), Given(ParameterName)),
    Config(Given(PoolId), Given(TargetName), Given("")) }

\* the i-th app client of the pool, in the provider's listing order
ClientNames ==
  << <<"a", "b", "c">>, <<"a", "b">>, <<"c", "d">>, <<"A", "b">>, <<"A", "B">> >>
ClientNumbers == <<"1", "2", "3", "4", "5", "6", "7", "8", "9">>
Client(i) ==
  [ClientId |-> "id" \o ClientNumbers[i],
   ClientName |-> IF i <= Len(ClientNames) THEN ClientNames[i] ELSE <<"c", "d">>,
   UserPoolId |-> PoolId]

RECURSIVE Sum(_)
Sum(sizes) == IF sizes = <<>> THEN 0 ELSE Head(sizes) + Sum(Tail(sizes))

\* the listing of a pool: the size of each of its pages
RECURSIVE LayoutsOfLength(_)
LayoutsOfLength(n) ==
  IF n = 0 THEN {<<>>}
  ELSE {Append(l, z) : l \in LayoutsOfLength(n - 1), z \in PageSizes}
Layouts == UNION {LayoutsOfLength(n) : n \in 1..MaxPages}

\* the app clients on page p of a listing with these page sizes
PageOf(sizes, p) ==
  LET skipped == Sum(SubSeq(sizes, 1, p - 1))
  IN [i \in 1..sizes[p] |-> Client(skipped + i)]

RECURSIVE AllClients(_, _)
AllClients(sizes, p) ==
  IF p > Len(sizes) THEN <<>> ELSE PageOf(sizes, p) \o AllClients(sizes, p + 1)

\* the credential record {url, clientId, clientSecret} as a document value
Record(url, clientId, clientSecret) ==
  Obj(<<Member("url", url), Member("clientId", clientId),
        Member("clientSecret", clientSecret)>>)

TokenUrl(domain, region) ==
  "https://" \o domain \o ".auth." \o region \o ".amazoncognito.com/oauth2/token"

\* parameter values the store may hold when the first run starts
StoredRecord == Record(Str(TokenUrl(Domain, Region)), Str("id2"), Str("s1"))
OtherSettings == Obj(<<Member("other", Str("1"))>>)
InitialDocs ==
  { EmptyDoc,
    Obj(<<Member("database", Str("db")), Member("auth", OtherSettings)>>),
    Obj(<<Member("auth", Set(OtherSettings, "cognito", StoredRecord)),
          Member("database", Str("db"))>>),
    Obj(<<Member("auth", Obj(<<Member("cognito", StoredRecord)>>))>>) }
NotJson == <<Tok("raw", "oops")>>
NoParameter == [present |-> FALSE, Value |-> <<>>, Type |-> "none"]
Parameter(value, type) == [present |-> TRUE, Value |-> value, Type |-> type]
InitialParameters ==
  {NoParameter, Parameter(NotJson, "String")}
  \cup {Parameter(JSON_stringify(d), "String") : d \in InitialDocs}

(***************************************************************************)
(* State.                                                                  *)
(***************************************************************************)
VARIABLES
  pluginConfig,        \* this.pluginConfig
  hooks,               \* the lifecycle events of this.hooks
  layout,              \* provider: the page sizes of the pool's listing
  clientSecret,        \* provider: the ClientSecret of the pool's app clients
  ssm,                 \* store: the parameter at pluginConfig.parameterName
  pc,                  \* per run: the call it waits for, or "idle" / "done"
  outcome,             \* per run: how it ended
  params,              \* per run: params.NextToken of the listing (0: none)
  appClients,          \* per run: the app clients accumulated so far
  appClient,           \* per run: the app client found by name
  authUrl,             \* per run: the token URL built from the pool's domain
  applicationConfig,   \* per run: the document read from the parameter
  putParameterParams,  \* per run: the request passed to ssm.putParameter
  calls,               \* per run: the AWS calls made, with their results
  log,                 \* per run and for the constructor: the log() calls
  before,              \* per run: the parameter when the run started
  fetched,             \* per run: the credential record it fetched
  order,               \* the runs in the order the hook started them
  readParam,           \* per run: the parameter getParameter answered with
  merging,             \* per run: the call of mergeApplicationConfig
  overwritten,         \* per run: the parameter its putParameter replaced
  writers              \* who has written the parameter, in order

vars == <<pluginConfig, hooks, layout, clientSecret, ssm, pc, outcome, params,
          appClients, appClient, authUrl, applicationConfig,
          putParameterParams, calls, log, before, fetched, order, readParam,
          merging, overwritten, writers>>

NoClient == [ClientId |-> "", ClientName |-> <<>>, UserPoolId |-> ""]
NoRequest == [Name |-> "", Value |-> <<>>, DataType |-> "", Overwrite |-> FALSE,
              Tier |-> "", Type |-> ""]
NoMerge == [called |-> FALSE, appConfig |-> EmptyDoc, appConfigAfter |-> EmptyDoc,
            returned |-> EmptyDoc]
Line(level, message) == [level |-> level, message |-> message]
Call(op, result) == [op |-> op, result |-> result]

(***************************************************************************)
(* constructor: the configuration is checked; only a complete one sets up  *)
(* the clients and registers exportCredetialsToSSM on after:deploy:deploy. *)
(***************************************************************************)
\* a check that only looks whether the plugin is configured at all
ConfigComplete_PresentOnly(cfg) == cfg.present

ConfigComplete(cfg) ==
  /\ cfg.present
  /\ FieldSet(cfg.userPoolId)
  /\ FieldSet(cfg.appClientName)
  /\ FieldSet(cfg.parameterName)

constructor(cfg) ==
  IF ~ConfigComplete(cfg)
    THEN [pluginConfig |-> cfg, hooks |-> {},
          log |-> <<Line("error", "missing required plugin configuration")>>]
    ELSE [pluginConfig |-> cfg, hooks |-> {"after:deploy:deploy"},
          log |-> <<>>]

Init ==
  /\ \E cfg \in Configs :
       /\ pluginConfig = constructor(cfg).pluginConfig
       /\ hooks = constructor(cfg).hooks
       /\ log = [r \in Runs \cup {"constructor"} |->
                  IF r = "constructor" THEN constructor(cfg).log ELSE <<>>]
  /\ layout \in Layouts
  /\ clientSecret \in Secrets
  /\ ssm \in InitialParameters
  /\ pc = [r \in Runs |-> "idle"]
  /\ outcome = [r \in Runs |-> "none"]
  /\ params = [r \in Runs |-> 0]
  /\ appClients = [r \in Runs |-> <<>>]
  /\ appClient = [r \in Runs |-> NoClient]
  /\ authUrl = [r \in Runs |-> ""]
  /\ applicationConfig = [r \in Runs |-> EmptyDoc]
  /\ putParameterParams = [r \in Runs |-> NoRequest]
  /\ calls = [r \in Runs |-> <<>>]
  /\ before = [r \in Runs |-> NoParameter]
  /\ fetched = [r \in Runs |-> Undefined]
  /\ order = <<>>
  /\ readParam = [r \in Runs |-> NoParameter]
  /\ merging = [r \in Runs |-> NoMerge]
  /\ overwritten = [r \in Runs |-> NoParameter]
  /\ writers = <<>>

(***************************************************************************)
(* Helpers of the run.                                                     *)
(***************************************************************************)
Issue(r, op) == Append(calls[r], Call(op, "pending"))
\* the pending call of run r has come back with this result
Returned(r, result) ==
  [i \in 1..Len(calls[r]) |->
    IF i = Len(calls[r]) THEN Call(calls[r][i].op, result) ELSE calls[r][i]]
Logged(r, lines) == [log EXCEPT ![r] = log[r] \o lines]
Running(r) == pc[r] \notin {"idle", "done"}

\* String.prototype.toUpperCase, character by character
LowerCase == <<"a", "b", "c", "d">>
UpperCase == <<"A", "B", "C", "D">>
UpperChar(c) ==
  IF \E i \in 1..Len(LowerCase) : LowerCase[i] = c
    THEN UpperCase[CHOOSE i \in 1..Len(LowerCase) : LowerCase[i] = c]
    ELSE c
toUpperCase(name) == [i \in 1..Len(name) |-> UpperChar(name[i])]

\* a lookup that takes the first app client listed, whatever its name
find_FirstListed(list, name) == IF Len(list) > 0 THEN 1 ELSE 0

\* a lookup that keeps the last app client whose name matches
find_LastMatch(list, name) ==
  IF \E i \in 1..Len(list) :
       toUpperCase(list[i].ClientName) = toUpperCase(name)
    THEN CHOOSE i \in 1..Len(list) :
           /\ toUpperCase(list[i].ClientName) = toUpperCase(name)
           /\ \A j \in (i + 1)..Len(list) :
                toUpperCase(list[j].ClientName) # toUpperCase(name)
    ELSE 0

\* Array.prototype.find with the name test: the index of the first app
\* client whose name matches, 0 when there is none
NameMatches(c, name) == toUpperCase(c.ClientName) = toUpperCase(name)
find(list, name) ==
  IF \E i \in 1..Len(list) : NameMatches(list[i], name)
    THEN CHOOSE i \in 1..Len(list) :
           /\ NameMatches(list[i], name)
           /\ \A j \in 1..(i - 1) : ~NameMatches(list[j], name)
    ELSE 0

(***************************************************************************)
(* listAllCognitoAppClients: one pass of the while loop per page request.  *)
(***************************************************************************)
\* the provider's answer to listUserPoolClients(params)
ListPage(token) ==
  LET p == IF token = 0 THEN 1 ELSE token
  IN [UserPoolClients |-> PageOf(layout, p),
      NextToken |-> IF p < Len(layout) THEN p + 1 ELSE 0]

\* the then-callback of a page request
PageThen(acc, token, data) ==
  IF Len(data.UserPoolClients) # 0
    THEN IF data.NextToken # 0
           THEN [appClients |-> acc \o data.UserPoolClients,
                 NextToken |-> data.NextToken, hasNext |-> TRUE]
           ELSE [appClients |-> acc \o data.UserPoolClients,
                 NextToken |-> token, hasNext |-> FALSE]
    ELSE [appClients |-> acc, NextToken |-> token, hasNext |-> FALSE]

\* the catch-callback of a page request
PageCatch(acc, token) ==
  [appClients |-> acc, NextToken |-> token, hasNext |-> FALSE]

\* what listAllCognitoAppClients returns once the loop has ended
Null == [isNull |-> TRUE, items |-> <<>>]
ListReturn(acc) ==
  IF Len(acc) = 0 THEN Null ELSE [isNull |-> FALSE, items |-> acc]

(***************************************************************************)
(* exportCredetialsToSSM up to its first await: the first page request.    *)
(***************************************************************************)
Start(r) ==
  /\ "after:deploy:deploy" \in hooks
  /\ pc[r] = "idle"
  /\ pc' = [pc EXCEPT ![r] = "listUserPoolClients"]
  /\ before' = [before EXCEPT ![r] = ssm]
  /\ order' = Append(order, r)
  /\ calls' = [calls EXCEPT ![r] = Issue(r, "listUserPoolClients")]
  /\ log' = Logged(r, <<Line("info", "plugin configuration"),
                        Line("info", "getting app client")>>)
  /\ UNCHANGED <<pluginConfig, hooks, readParam, merging, overwritten, writers,
                 layout, clientSecret, ssm, outcome,
                 params, appClients, appClient, authUrl, applicationConfig,
                 putParameterParams, fetched>>

\* the hook fires once per deployment, and deployments follow one another
exportCredetialsToSSM(r) ==
  /\ \A q \in Runs : ~Running(q)
  /\ Start(r)

\* the run returns: nothing further is called
Return(r, how, result, lines) ==
  /\ pc' = [pc EXCEPT ![r] = "done"]
  /\ outcome' = [outcome EXCEPT ![r] = how]
  /\ calls' = [calls EXCEPT ![r] = Returned(r, result)]
  /\ log' = Logged(r, lines)

\* a page request comes back; when the loop ends, the run goes on to
\* steps 2 and 3 (find the app client, ask for the user pool)
listUserPoolClients(r) ==
  /\ pc[r] = "listUserPoolClients"
  /\ \E ok \in BOOLEAN :
       LET step == IF ok THEN PageThen(appClients[r], params[r], ListPage(params[r]))
                         ELSE PageCatch(appClients[r], params[r])
           result == IF ok THEN "ok" ELSE "error"
           failure == IF ok THEN <<>>
                      ELSE <<Line("error", "failed to list user pool clients")>>
           listed == ListReturn(step.appClients)
           found == find(listed.items, pluginConfig.appClientName.s)
       IN /\ appClients' = [appClients EXCEPT ![r] = step.appClients]
          /\ params' = [params EXCEPT ![r] = step.NextToken]
          /\ IF step.hasNext
               THEN /\ calls' = [calls EXCEPT ![r] =
                                  Append(Returned(r, result),
                                         Call("listUserPoolClients", "pending"))]
                    /\ log' = Logged(r, failure)
                    /\ UNCHANGED <<pc, outcome, appClient>>
             ELSE IF listed.isNull
               THEN /\ Return(r, "NoAppClients", result,
                              failure \o <<Line("error", "no app clients found")>>)
                    /\ UNCHANGED appClient
             ELSE IF found = 0
               THEN /\ Return(r, "NotFound", result,
                              failure \o <<Line("error", "no app client found with name")>>)
                    /\ UNCHANGED appClient
             ELSE /\ appClient' = [appClient EXCEPT ![r] = listed.items[found]]
                  /\ pc' = [pc EXCEPT ![r] = "describeUserPool"]
                  /\ calls' = [calls EXCEPT ![r] =
                                Append(Returned(r, result),
                                       Call("describeUserPool", "pending"))]
                  /\ log' = Logged(r, failure)
                  /\ UNCHANGED outcome
  /\ UNCHANGED <<pluginConfig, hooks, readParam, merging, overwritten, writers,
                 order, layout, clientSecret, ssm, authUrl,
                 applicationConfig, putParameterParams, before, fetched>>

(***************************************************************************)
(* Step 3: the describeUserPool callback builds the token URL and asks     *)
(* the store for the parameter.                                            *)
(***************************************************************************)
\* the flow of the plugin's earlier version: the client's credentials are
\* asked for right after the user pool, and the parameter is never read
describeUserPool_SkipRead(r) ==
  /\ pc[r] = "describeUserPool"
  /\ \E ok \in BOOLEAN :
       IF ok
         THEN /\ authUrl' = [authUrl EXCEPT ![r] = TokenUrl(Domain, Region)]
              /\ pc' = [pc EXCEPT ![r] = "describeUserPoolClient"]
              /\ calls' = [calls EXCEPT ![r] =
                            Append(Returned(r, "ok"),
                                   Call("describeUserPoolClient", "pending"))]
              /\ UNCHANGED <<outcome, log>>
         ELSE /\ Return(r, "DescribePoolFailed", "error",
                        <<Line("error", "failed to describe user pool")>>)
              /\ UNCHANGED authUrl
  /\ UNCHANGED <<pluginConfig, hooks, readParam, merging, overwritten, writers,
                 order, layout, clientSecret, ssm, params,
                 appClients, appClient, applicationConfig, putParameterParams,
                 before, fetched>>

\* a callback whose error branch logs and then goes on as if the call had
\* succeeded
describeUserPool_ErrorFallsThrough(r) ==
  /\ pc[r] = "describeUserPool"
  /\ \E ok \in BOOLEAN :
       /\ authUrl' = [authUrl EXCEPT ![r] = TokenUrl(Domain, Region)]
       /\ pc' = [pc EXCEPT ![r] = "getParameter"]
       /\ calls' = [calls EXCEPT ![r] =
                     Append(Returned(r, IF ok THEN "ok" ELSE "error"),
                            Call("getParameter", "pending"))]
       /\ log' = Logged(r, IF ok THEN <<>>
                           ELSE <<Line("error", "failed to describe user pool")>>)
       /\ UNCHANGED outcome
  /\ UNCHANGED <<pluginConfig, hooks, readParam, merging, overwritten, writers,
                 order, layout, clientSecret, ssm, params,
                 appClients, appClient, applicationConfig, putParameterParams,
                 before, fetched>>

describeUserPool(r) ==
  /\ pc[r] = "describeUserPool"
  /\ \E ok \in BOOLEAN :
       IF ok
         THEN /\ authUrl' = [authUrl EXCEPT ![r] = TokenUrl(Domain, Region)]
              /\ pc' = [pc EXCEPT ![r] = "getParameter"]
              /\ calls' = [calls EXCEPT ![r] =
                            Append(Returned(r, "ok"), Call("getParameter", "pending"))]
              /\ UNCHANGED <<outcome, log>>
         ELSE /\ Return(r, "DescribePoolFailed", "error",
                        <<Line("error", "failed to describe user pool")>>)
              /\ UNCHANGED authUrl
  /\ UNCHANGED <<pluginConfig, hooks, readParam, merging, overwritten, writers,
                 order, layout, clientSecret, ssm, params,
                 appClients, appClient, applicationConfig, putParameterParams,
                 before, fetched>>

(***************************************************************************)
(* Step 4: the getParameter callback.  The store answers with the value,   *)
(* with ParameterNotFound when there is no parameter, or with some other   *)
(* error.  A value is parsed; the client's credentials are asked for.      *)
(***************************************************************************)
\* a read that gives the run up on any error but ParameterNotFound
getParameter_StrictRead(r) ==
  /\ pc[r] = "getParameter"
  /\ \E answer \in {"error"} \cup (IF ssm.present THEN {"value"}
                                                  ELSE {"ParameterNotFound"}) :
       LET hasValue == answer = "value" /\ ssm.Value # <<>>
           parsed == JSON_parse(ssm.Value)
       IN /\ readParam' = [readParam EXCEPT ![r] =
                           IF answer = "value" THEN ssm ELSE NoParameter]
          /\ IF answer = "error"
               THEN /\ Return(r, "ReadFailed", answer,
                              <<Line("error", "failed to get parameter")>>)
                    /\ UNCHANGED applicationConfig
               ELSE IF hasValue /\ ~parsed.ok
                 THEN /\ Return(r, "Thrown", answer, <<>>)
                      /\ UNCHANGED applicationConfig
                 ELSE /\ applicationConfig' =
                           [applicationConfig EXCEPT ![r] =
                             IF hasValue THEN parsed.val ELSE EmptyDoc]
                      /\ pc' = [pc EXCEPT ![r] = "describeUserPoolClient"]
                      /\ calls' = [calls EXCEPT ![r] =
                                    Append(Returned(r, answer),
                                           Call("describeUserPoolClient", "pending"))]
                      /\ log' = Logged(r, <<Line("info", "pulling app client credentials")>>)
                      /\ UNCHANGED outcome
  /\ UNCHANGED <<pluginConfig, hooks, merging, overwritten, writers,
                 order, layout, clientSecret, ssm, params,
                 appClients, appClient, authUrl, putParameterParams, before,
                 fetched>>

GetParameterAnswers ==
  {"error"} \cup (IF ssm.present THEN {"value"} ELSE {"ParameterNotFound"})

getParameter(r) ==
  /\ pc[r] = "getParameter"
  /\ \E answer \in GetParameterAnswers :
       LET failure == IF answer = "error"
                        THEN <<Line("error", "failed to get parameter")>>
                        ELSE <<>>
           hasValue == answer = "value" /\ ssm.Value # <<>>
           parsed == JSON_parse(ssm.Value)
       IN /\ readParam' = [readParam EXCEPT ![r] =
                           IF answer = "value" THEN ssm ELSE NoParameter]
          /\ IF hasValue /\ ~parsed.ok
            THEN \* JSON.parse throws inside the callback
                 /\ Return(r, "Thrown", answer, failure)
                 /\ UNCHANGED applicationConfig
            ELSE /\ applicationConfig' =
                      [applicationConfig EXCEPT ![r] =
                        IF hasValue THEN parsed.val ELSE EmptyDoc]
                 /\ pc' = [pc EXCEPT ![r] = "describeUserPoolClient"]
                 /\ calls' = [calls EXCEPT ![r] =
                               Append(Returned(r, answer),
                                      Call("describeUserPoolClient", "pending"))]
                 /\ log' = Logged(r, failure \o
                                     <<Line("info", "pulling app client credentials")>>)
                 /\ UNCHANGED outcome
  /\ UNCHANGED <<pluginConfig, hooks, merging, overwritten, writers,
                 order, layout, clientSecret, ssm, params,
                 appClients, appClient, authUrl, putParameterParams, before,
                 fetched>>

(***************************************************************************)
(* mergeApplicationConfig and the comparison with the stored record.       *)
(***************************************************************************)
\* obj[key] = x in strict mode: a TypeError on anything but an object
TypeError == [threw |-> TRUE, val |-> Undefined]
Assigned(val) == [threw |-> FALSE, val |-> val]

\* a merge that assigns a fresh auth object whatever the document holds
mergeApplicationConfig_ReplaceAuth(appConfig, appClientConfig) ==
  IF IsObj(appConfig)
    THEN Assigned(Set(appConfig, "auth",
                      Obj(<<Member("cognito", appClientConfig)>>)))
    ELSE TypeError

mergeApplicationConfig(appConfig, appClientConfig) ==
  IF Truthy(Get(appConfig, "auth"))
    THEN IF IsObj(Get(appConfig, "auth"))
           THEN Assigned(Set(appConfig, "auth",
                             Set(Get(appConfig, "auth"), "cognito", appClientConfig)))
           ELSE TypeError
    ELSE IF IsObj(appConfig)
           THEN Assigned(Set(appConfig, "auth",
                             Obj(<<Member("cognito", appClientConfig)>>)))
           ELSE TypeError

\* a comparison of the two records by reference, which never holds
NoChanges_ByReference(appConfig, appClientConfig) ==
  /\ Truthy(Get(appConfig, "auth"))
  /\ Truthy(Get(Get(appConfig, "auth"), "cognito"))
  /\ FALSE

\* the test that ends the run with "no changes have been detected"
NoChanges(appConfig, appClientConfig) ==
  /\ Truthy(Get(appConfig, "auth"))
  /\ Truthy(Get(Get(appConfig, "auth"), "cognito"))
  /\ LET current == Get(Get(appConfig, "auth"), "cognito")
     IN /\ Get(current, "url") = Get(appClientConfig, "url")
        /\ Get(current, "clientId") = Get(appClientConfig, "clientId")
        /\ Get(current, "clientSecret") = Get(appClientConfig, "clientSecret")

\* the request of the plugin's earlier version: the record alone, not merged
PutParameterParams_RecordOnly(name, doc) ==
  [Name |-> name,
   Value |-> JSON_stringify(
     Obj(<<Member("auth",
                  Obj(<<Member("cognito", Get(Get(doc, "auth"), "cognito"))>>))>>)),
   DataType |-> "text", Overwrite |-> TRUE, Tier |-> "Standard",
   Type |-> "String"]

\* the request of step 6
PutParameterParams(name, doc) ==
  [Name |-> name, Value |-> JSON_stringify(doc), DataType |-> "text",
   Overwrite |-> TRUE, Tier |-> "Standard", Type |-> "String"]

\* an argument that is left as it was passed in, as if the merge worked on a copy
ArgumentAfter_Untouched(appConfig, merged) == appConfig

\* the object passed as appConfig once mergeApplicationConfig has returned:
\* the assignments are made on that object, which is also what is returned
ArgumentAfter(appConfig, merged) == merged

\* the call applicationConfig = that.mergeApplicationConfig(applicationConfig, ...)
MergeCall(appConfig, appClientConfig) ==
  LET merged == mergeApplicationConfig(appConfig, appClientConfig).val
  IN [called |-> TRUE, appConfig |-> appConfig,
      appConfigAfter |-> ArgumentAfter(appConfig, merged), returned |-> merged]

(***************************************************************************)
(* Steps 5 and 6: the describeUserPoolClient callback compares, merges     *)
(* and calls putParameter.                                                 *)
(***************************************************************************)
describeUserPoolClient(r) ==
  /\ pc[r] = "describeUserPoolClient"
  /\ \E ok \in BOOLEAN :
       LET appClientConfig ==
             Record(Str(authUrl[r]), Str(appClient[r].ClientId), Str(clientSecret))
           merged == mergeApplicationConfig(applicationConfig[r], appClientConfig)
           start == <<Line("info", "updating parameter"),
                      Line("info", "current application config")>>
       IN IF ~ok
            THEN /\ Return(r, "DescribeClientFailed", "error",
                           <<Line("error", "failed to describe user pool client")>>)
                 /\ UNCHANGED <<applicationConfig, putParameterParams, fetched, merging>>
          ELSE IF NoChanges(applicationConfig[r], appClientConfig)
            THEN /\ Return(r, "Unchanged", "ok",
                           start \o <<Line("warn", "no changes have been detected")>>)
                 /\ fetched' = [fetched EXCEPT ![r] = appClientConfig]
                 /\ UNCHANGED <<applicationConfig, putParameterParams, merging>>
          ELSE IF merged.threw
            THEN /\ Return(r, "Thrown", "ok",
                           start \o <<Line("info", "merging")>>)
                 /\ fetched' = [fetched EXCEPT ![r] = appClientConfig]
                 /\ UNCHANGED <<applicationConfig, putParameterParams, merging>>
          ELSE /\ fetched' = [fetched EXCEPT ![r] = appClientConfig]
               /\ merging' = [merging EXCEPT ![r] =
                                MergeCall(applicationConfig[r], appClientConfig)]
               /\ applicationConfig' = [applicationConfig EXCEPT ![r] = merged.val]
               /\ putParameterParams' =
                    [putParameterParams EXCEPT ![r] =
                      PutParameterParams(pluginConfig.parameterName.s, merged.val)]
               /\ pc' = [pc EXCEPT ![r] = "putParameter"]
               /\ calls' = [calls EXCEPT ![r] =
                             Append(Returned(r, "ok"), Call("putParameter", "pending"))]
               /\ log' = Logged(r, start \o <<Line("info", "merging")>>)
               /\ UNCHANGED outcome
  /\ UNCHANGED <<pluginConfig, hooks, readParam, overwritten, writers,
                 order, layout, clientSecret, ssm, params,
                 appClients, appClient, authUrl, before>>

\* a put that leaves a parameter that is already there (Overwrite: false)
PutEffect_KeepExisting(current, request) ==
  IF current.present THEN current ELSE Parameter(request.Value, request.Type)

\* the store after a successful putParameter with Overwrite: true: the
\* request's value, whatever the parameter held
PutEffect(current, request) == Parameter(request.Value, request.Type)

(***************************************************************************)
(* The putParameter callback: on success the store holds the new value.    *)
(***************************************************************************)
\* a callback that issues the put again when it has failed
putParameter_RetryOnError(r) ==
  /\ pc[r] = "putParameter"
  /\ \E ok \in BOOLEAN :
       IF ok
         THEN /\ ssm' = PutEffect(ssm, putParameterParams[r])
              /\ overwritten' = [overwritten EXCEPT ![r] = ssm]
              /\ writers' = Append(writers, r)
              /\ Return(r, "Written", "ok",
                        <<Line("info", "app client credentials have been exported")>>)
         ELSE /\ calls' = [calls EXCEPT ![r] =
                            Append(Returned(r, "error"),
                                   Call("putParameter", "pending"))]
              /\ log' = Logged(r, <<Line("error", "failed to put parameter")>>)
              /\ UNCHANGED <<ssm, overwritten, writers, pc, outcome>>
  /\ UNCHANGED <<pluginConfig, hooks, readParam, merging, order, layout,
                 clientSecret, params, appClients, appClient, authUrl,
                 applicationConfig, putParameterParams, before, fetched>>

putParameter(r) ==
  /\ pc[r] = "putParameter"
  /\ \E ok \in BOOLEAN :
       IF ok
         THEN /\ ssm' = PutEffect(ssm, putParameterParams[r])
              /\ overwritten' = [overwritten EXCEPT ![r] = ssm]
              /\ writers' = Append(writers, r)
              /\ Return(r, "Written", "ok",
                        <<Line("info", "app client credentials have been exported")>>)
         ELSE /\ UNCHANGED <<ssm, overwritten, writers>>
              /\ Return(r, "Failed", "error",
                        <<Line("error", "failed to put parameter"),
                          Line("info", "app client credentials have been exported")>>)
  /\ UNCHANGED <<pluginConfig, hooks, readParam, merging, order, layout,
                 clientSecret, params, appClients, appClient, authUrl,
                 applicationConfig, putParameterParams, before, fetched>>

Next ==
  \E r \in Runs :
    \/ exportCredetialsToSSM(r)
    \/ listUserPoolClients(r)
    \/ describeUserPool(r)
    \/ getParameter(r)
    \/ describeUserPoolClient(r)
    \/ putParameter(r)

Spec == Init /\ [][Next]_vars

(***************************************************************************)
(* Overlapping runs and other clients of the parameter.  Nothing in the    *)
(* run holds the parameter between its getParameter and its putParameter   *)
(* (no lock, no version): a second run may start while the first waits     *)
(* for a callback, and another client of the store may put the parameter   *)
(* at any time.  The plugin is configured, and the pool lists the          *)
(* configured app client on its first page.                                *)
(***************************************************************************)
ConcLayouts == {<<2>>}
OtherClient == "other"
OtherDatabase == Str("db2")

InitConc ==
  /\ Init
  /\ pluginConfig = constructor(ValidConfig).pluginConfig
  /\ layout \in ConcLayouts

\* another client of the store rewrites the parameter with its database
\* setting changed
OtherWriter ==
  /\ ssm.present
  /\ JSON_parse(ssm.Value).ok
  /\ \A i \in DOMAIN writers : writers[i] # OtherClient
  /\ ssm' = Parameter(JSON_stringify(Set(JSON_parse(ssm.Value).val,
                                         "database", OtherDatabase)),
                      "String")
  /\ writers' = Append(writers, OtherClient)
  /\ UNCHANGED <<pluginConfig, hooks, layout, clientSecret, pc, outcome, params,
                 appClients, appClient, authUrl, applicationConfig,
                 putParameterParams, calls, log, before, fetched, order,
                 readParam, merging, overwritten>>

NextConc ==
  \/ \E r \in Runs :
       \/ Start(r)
       \/ listUserPoolClients(r)
       \/ describeUserPool(r)
       \/ getParameter(r)
       \/ describeUserPoolClient(r)
       \/ putParameter(r)
  \/ OtherWriter

SpecConc == InitConc /\ [][NextConc]_vars

(***************************************************************************)
(* Vocabulary of the properties.                                           *)
(***************************************************************************)
Invoked(r, op) == \E i \in 1..Len(calls[r]) : calls[r][i].op = op
CountOf(r, op) == Cardinality({i \in 1..Len(calls[r]) : calls[r][i].op = op})
ResultOf(r, op) ==
  calls[r][CHOOSE i \in 1..Len(calls[r]) : calls[r][i].op = op].result
NoCallFailed(r) ==
  \A i \in 1..Len(calls[r]) : calls[r][i].result \in {"ok", "value", "ParameterNotFound"}
Ended(r) == pc[r] = "done"
IsLatest(r) == order # <<>> /\ order[Len(order)] = r

\* the document a parameter holds: the empty document when there is no
\* parameter or its value is no JSON text
DocOf(parameter) ==
  LET parsed == JSON_parse(parameter.Value)
  IN IF parameter.present /\ parsed.ok THEN parsed.val ELSE EmptyDoc
\* the record a parameter holds at auth.cognito, undefined when none
HeldRecord(parameter) == Get(Get(DocOf(parameter), "auth"), "cognito")
SameRecord(a, b) ==
  /\ Get(a, "url") = Get(b, "url")
  /\ Get(a, "clientId") = Get(b, "clientId")
  /\ Get(a, "clientSecret") = Get(b, "clientSecret")

\* every path of a document other than auth.cognito, with its value
PathsOutside(doc) ==
  {<<doc.kv[i].k, "", doc.kv[i].v>> :
     i \in {j \in 1..Len(doc.kv) : doc.kv[j].k # "auth"}}
  \cup
  {<<"auth", Get(doc, "auth").kv[i].k, Get(doc, "auth").kv[i].v>> :
     i \in {j \in 1..Len(Get(doc, "auth").kv) : Get(doc, "auth").kv[j].k # "cognito"}}

\* the record the provider currently holds for the configured app client
ProviderRecord(r) ==
  Record(Str(TokenUrl(Domain, Region)), Str(appClient[r].ClientId), Str(clientSecret))

(***************************************************************************)
(* C1.  A run that has fetched a credential record invokes putParameter    *)
(* if and only if the store held no record at auth.cognito before the run  *)
(* or held one that differs in url, clientId or clientSecret, whatever the *)
(* store read returned.  (The code writes after a failed read even when    *)
(* the stored record is the same.)                                         *)
(***************************************************************************)
C1_WriteIffChanged ==
  \A r \in Runs :
    fetched[r] # Undefined =>
      (Invoked(r, "putParameter") <=>
         \/ HeldRecord(before[r]) = Undefined
         \/ ~SameRecord(HeldRecord(before[r]), fetched[r]))

(***************************************************************************)
(* C2.  Idempotence: from a store whose record is absent or stale, two     *)
(* runs one after the other, with no call failing, make exactly one        *)
(* putParameter, in the first run; the second run ends Unchanged and the   *)
(* store holds what the first run wrote.                                   *)
(***************************************************************************)
TwoRunsNoFailure(a, b) ==
  /\ order = <<a, b>>
  /\ Ended(a) /\ Ended(b)
  /\ NoCallFailed(a) /\ NoCallFailed(b)
  /\ fetched[a] # Undefined
  /\ \/ HeldRecord(before[a]) = Undefined
     \/ ~SameRecord(HeldRecord(before[a]), fetched[a])

C2_Idempotence ==
  \A a, b \in Runs :
    TwoRunsNoFailure(a, b) =>
      /\ CountOf(a, "putParameter") = 1
      /\ CountOf(b, "putParameter") = 0
      /\ outcome[a] = "Written"
      /\ outcome[b] = "Unchanged"
      /\ ssm.present /\ ssm.Value = putParameterParams[a].Value
      /\ ssm = before[b]

C2_Witness ==
  \E a, b \in Runs :
    /\ TwoRunsNoFailure(a, b)
    /\ HeldRecord(before[a]) # Undefined
    /\ outcome[b] = "Unchanged"

(***************************************************************************)
(* C3.  Every path of the stored document other than auth.cognito has the  *)
(* same value after a run as before it, whatever the outcome of each       *)
(* call.  (After a failed read the code writes a document that holds       *)
(* auth.cognito alone.)                                                    *)
(***************************************************************************)
C3_OtherPathsSurvive ==
  \A r \in Runs :
    (Ended(r) /\ IsLatest(r)) =>
      PathsOutside(DocOf(ssm)) = PathsOutside(DocOf(before[r]))

(***************************************************************************)
(* C4.  mergeApplicationConfig is non-destructive outside auth.cognito:    *)
(* the merged document has auth.cognito = record, every top-level key      *)
(* other than auth keeps its value, and so does every key under auth       *)
(* other than cognito; the empty document is no exception.                 *)
(***************************************************************************)
MergePreserves(doc, record, merged) ==
  /\ Get(Get(merged, "auth"), "cognito") = record
  /\ \A key \in Keys(doc) \ {"auth"} : Get(merged, key) = Get(doc, key)
  /\ Keys(merged) = Keys(doc) \cup {"auth"}
  /\ \A key \in Keys(Get(doc, "auth")) \ {"cognito"} :
       Get(Get(merged, "auth"), key) = Get(Get(doc, "auth"), key)
  /\ Keys(Get(merged, "auth")) = Keys(Get(doc, "auth")) \cup {"cognito"}

C4_MergeNonDestructive ==
  [][\A r \in Runs :
       (pc[r] = "describeUserPoolClient" /\ pc'[r] = "putParameter") =>
         MergePreserves(applicationConfig[r], fetched'[r], applicationConfig'[r])]_vars

C4_Witness ==
  \E r \in Runs :
    /\ pc[r] = "putParameter"
    /\ ResultOf(r, "getParameter") = "value"
    /\ Get(applicationConfig[r], "database") = Str("db")
    /\ Get(Get(applicationConfig[r], "auth"), "other") = Str("1")
    /\ Get(Get(applicationConfig[r], "auth"), "cognito") = ProviderRecord(r)

(***************************************************************************)
(* C5.  Every putParameter the plugin issues stores the configuration as   *)
(* an encrypted SecureString parameter, never as a plain String.  (The     *)
(* code asks for Type 'String'.)                                           *)
(***************************************************************************)
C5_SecureStringOnly ==
  \A r \in Runs :
    Invoked(r, "putParameter") => putParameterParams[r].Type = "SecureString"

(***************************************************************************)
(* C6.  With the plugin configuration absent, or userPoolId,               *)
(* appClientName or parameterName missing or empty, the constructor        *)
(* reports the error, registers no hook, and no provider or store call is  *)
(* ever made.                                                              *)
(***************************************************************************)
ConfigIncomplete ==
  \/ ~pluginConfig.present
  \/ pluginConfig.userPoolId.t = "undef" \/ pluginConfig.userPoolId.s = ""
  \/ pluginConfig.appClientName.t = "undef" \/ pluginConfig.appClientName.s = <<>>
  \/ pluginConfig.parameterName.t = "undef" \/ pluginConfig.parameterName.s = ""

C6_NoRunWithoutConfig ==
  ConfigIncomplete =>
    /\ hooks = {}
    /\ log["constructor"] = <<Line("error", "missing required plugin configuration")>>
    /\ \A r \in Runs : calls[r] = <<>> /\ pc[r] = "idle"

C6_Witness ==
  /\ pluginConfig.present
  /\ pluginConfig.appClientName.s = <<>>
  /\ pluginConfig.userPoolId.s = PoolId
  /\ hooks = {}
  /\ layout = <<2>>

(***************************************************************************)
(* C7.  When the listing yields no app client whose name matches the       *)
(* configured name (or no app client at all), the run ends there:          *)
(* describeUserPool, describeUserPoolClient, getParameter and putParameter *)
(* are never called and the store value is unchanged.                      *)
(***************************************************************************)
ListingOver(r) == pc[r] \notin {"idle", "listUserPoolClients"}
NoneMatches(r) ==
  \A i \in 1..Len(appClients[r]) :
    toUpperCase(appClients[r][i].ClientName) # toUpperCase(TargetName)

C7_NoMatchEndsRun ==
  \A r \in Runs :
    (ListingOver(r) /\ NoneMatches(r)) =>
      /\ Ended(r)
      /\ ~Invoked(r, "describeUserPool")
      /\ ~Invoked(r, "describeUserPoolClient")
      /\ ~Invoked(r, "getParameter")
      /\ ~Invoked(r, "putParameter")
      /\ IsLatest(r) => ssm = before[r]

C7_Witness ==
  \E r \in Runs :
    /\ ListingOver(r) /\ NoneMatches(r)
    /\ Len(appClients[r]) = 1
    /\ NoCallFailed(r)
    /\ ssm.present

(***************************************************************************)
(* C8.  Pagination completeness: when no page request fails, the listing   *)
(* asks for page after page, passing on the token of the page before,      *)
(* until a page comes without a token, and returns the app clients of      *)
(* every page of the pool in order.  (The code stops at an empty page      *)
(* even when that page carries a token.)                                   *)
(***************************************************************************)
NoPageFailed(r) ==
  \A i \in 1..Len(calls[r]) :
    calls[r][i].op = "listUserPoolClients" => calls[r][i].result = "ok"

C8_PaginationComplete ==
  \A r \in Runs :
    (ListingOver(r) /\ NoPageFailed(r)) => appClients[r] = AllClients(layout, 1)

\* the case the listing does handle: pages of sizes 2, 2 and 1 give all five
C8_ThreePagesListed ==
  \E r \in Runs :
    /\ layout = <<2, 2, 1>>
    /\ ListingOver(r) /\ NoPageFailed(r)
    /\ Len(appClients[r]) = 5

(***************************************************************************)
(* C9.  When a page request fails, at the first page or after any number   *)
(* of successful pages, the listing reports no entities (null): app        *)
(* clients of earlier pages are never returned, and the run ends without   *)
(* resolving a client and without touching the store.  (The code returns   *)
(* the app clients accumulated before the failure.)                        *)
(***************************************************************************)
SomePageFailed(r) ==
  \E i \in 1..Len(calls[r]) :
    calls[r][i].op = "listUserPoolClients" /\ calls[r][i].result = "error"

C9_FailedPageMeansNoEntities ==
  \A r \in Runs :
    (ListingOver(r) /\ SomePageFailed(r)) =>
      /\ Ended(r)
      /\ appClient[r] = NoClient
      /\ ~Invoked(r, "describeUserPool")
      /\ ~Invoked(r, "getParameter")
      /\ ~Invoked(r, "putParameter")

(***************************************************************************)
(* C10.  The value a run puts is the document it read (the empty document  *)
(* after ParameterNotFound) with auth.cognito replaced by the record just  *)
(* fetched; after ParameterNotFound it is exactly                          *)
(* {auth: {cognito: {url, clientId, clientSecret}}}, and when only the     *)
(* secret changed the value written carries the new secret.                *)
(***************************************************************************)
DocRead(r) ==
  IF ResultOf(r, "getParameter") = "value" THEN DocOf(before[r]) ELSE EmptyDoc
Written(r) == JSON_parse(putParameterParams[r].Value)

C10_WrittenIsMergedDocument ==
  \A r \in Runs :
    Invoked(r, "putParameter") =>
      LET written == Written(r)
          read == DocRead(r)
      IN /\ written.ok
         /\ fetched[r] = ProviderRecord(r)
         /\ Get(Get(written.val, "auth"), "cognito") = ProviderRecord(r)
         /\ PathsOutside(written.val) = PathsOutside(read)
         /\ Keys(written.val) = Keys(read) \cup {"auth"}
         /\ ResultOf(r, "getParameter") = "ParameterNotFound" =>
              written.val = Obj(<<Member("auth",
                                     Obj(<<Member("cognito", ProviderRecord(r))>>))>>)
         /\ putParameterParams[r].Name = ParameterName

\* only the secret changed: the stored record has the old one, the put the new
C10_Witness ==
  \E r \in Runs :
    /\ Invoked(r, "putParameter")
    /\ ResultOf(r, "getParameter") = "value"
    /\ Get(HeldRecord(before[r]), "clientSecret") = Str("s1")
    /\ Get(HeldRecord(before[r]), "url") = Get(ProviderRecord(r), "url")
    /\ Get(HeldRecord(before[r]), "clientId") = Get(ProviderRecord(r), "clientId")
    /\ Get(Get(Get(Written(r).val, "auth"), "cognito"), "clientSecret") = Str("s2")
    /\ Get(Written(r).val, "database") = Str("db")


(***************************************************************************)
(* C11.  Entity resolution selects at most one app client per run: the     *)
(* first one in listing order whose ClientName equals the configured       *)
(* name up to letter case.  A name that differs other than by case is      *)
(* never selected, and a later match never takes precedence over an        *)
(* earlier one.                                                            *)
(***************************************************************************)
CasePairs == {{"a", "A"}, {"b", "B"}, {"c", "C"}, {"d", "D"}}
SameLetter(x, y) == x = y \/ {x, y} \in CasePairs
EqualUpToCase(a, b) ==
  /\ Len(a) = Len(b)
  /\ \A i \in 1..Len(a) : SameLetter(a[i], b[i])

C11_FirstMatchWins ==
  \A r \in Runs :
    /\ appClient[r] # NoClient =>
         \E i \in 1..Len(appClients[r]) :
           /\ appClients[r][i] = appClient[r]
           /\ EqualUpToCase(appClients[r][i].ClientName, TargetName)
           /\ \A j \in 1..(i - 1) :
                ~EqualUpToCase(appClients[r][j].ClientName, TargetName)
    /\ (ListingOver(r) /\ appClient[r] = NoClient) =>
         \A i \in 1..Len(appClients[r]) :
           ~EqualUpToCase(appClients[r][i].ClientName, TargetName)

\* "ab" is selected for "Ab" although "abc" comes first and "Ab" comes later
C11_Witness ==
  \E r \in Runs :
    /\ appClient[r].ClientName = <<"a", "b">>
    /\ Len(appClients[r]) >= 4
    /\ appClients[r][1].ClientName = <<"a", "b", "c">>
    /\ appClients[r][4].ClientName = TargetName

(***************************************************************************)
(* C12.  Nothing is thrown out of a run: whatever each call returns and    *)
(* whatever the stored value holds, the run ends in a normal return.       *)
(* (JSON.parse of a stored value that is no JSON text throws inside the    *)
(* getParameter callback, where nothing catches it.)                       *)
(***************************************************************************)
C12_NothingThrown ==
  \A r \in Runs : outcome[r] # "Thrown"


(***************************************************************************)
(* C13.  As claimed: the run is a pipeline list -> resolve -> describe     *)
(* pool and fetch secret -> read store -> compare -> write, so             *)
(* getParameter is issued only after describeUserPool and                  *)
(* describeUserPoolClient have both completed successfully, and the write  *)
(* only after the compare.  (The code reads the store between the two      *)
(* provider retrievals.)                                                   *)
(***************************************************************************)
IndexOf(r, op) == CHOOSE i \in 1..Len(calls[r]) : calls[r][i].op = op
SucceededBefore(r, op, i) ==
  \E j \in 1..(i - 1) : calls[r][j].op = op /\ calls[r][j].result = "ok"
Compared(r) ==
  /\ fetched[r] # Undefined
  /\ LET held == HeldRecord(readParam[r])
     IN held = Undefined \/ ~SameRecord(held, fetched[r])

C13_ReadAfterBothRetrievals ==
  \A r \in Runs :
    /\ Invoked(r, "getParameter") =>
         /\ SucceededBefore(r, "describeUserPool", IndexOf(r, "getParameter"))
         /\ SucceededBefore(r, "describeUserPoolClient", IndexOf(r, "getParameter"))
    /\ Invoked(r, "putParameter") => Compared(r)

(***************************************************************************)
(* C13, amended.  The order is list -> resolve -> describe pool -> read    *)
(* store -> fetch secret -> compare -> write, each call issued from the    *)
(* callback of the one before: getParameter only after describeUserPool    *)
(* succeeded, describeUserPoolClient only after getParameter answered,     *)
(* putParameter only after describeUserPoolClient succeeded and the        *)
(* compare found a difference.                                             *)
(***************************************************************************)
FollowsInOrder(r, i) ==
  LET prev == calls[r][i - 1]
      cur == calls[r][i]
  IN /\ cur.op = "listUserPoolClients" =>
          prev.op = "listUserPoolClients" /\ prev.result = "ok"
     /\ cur.op = "describeUserPool" =>
          prev.op = "listUserPoolClients" /\ prev.result # "pending"
     /\ cur.op = "getParameter" =>
          prev.op = "describeUserPool" /\ prev.result = "ok"
     /\ cur.op = "describeUserPoolClient" =>
          /\ prev.op = "getParameter"
          /\ prev.result \in {"value", "ParameterNotFound", "error"}
     /\ cur.op = "putParameter" =>
          /\ prev.op = "describeUserPoolClient" /\ prev.result = "ok"
          /\ Compared(r)

C13_PipelineOrder ==
  \A r \in Runs :
    /\ calls[r] # <<>> => calls[r][1].op = "listUserPoolClients"
    /\ \A i \in 2..Len(calls[r]) : FollowsInOrder(r, i)
    /\ \A op \in {"describeUserPool", "getParameter", "describeUserPoolClient",
                  "putParameter"} : CountOf(r, op) <= 1

C13_Witness ==
  \E r \in Runs :
    /\ Len(calls[r]) = 6
    /\ calls[r][3].op = "describeUserPool"
    /\ calls[r][4].op = "getParameter"
    /\ calls[r][5].op = "describeUserPoolClient"
    /\ calls[r][6] = Call("putParameter", "pending")


LastCall(r) == calls[r][Len(calls[r])]

Retrievals == {"describeUserPool", "describeUserPoolClient"}

C15_FailedRetrievalAborts ==
  \A r \in Runs :
    \A op \in Retrievals :
      (Invoked(r, op) /\ ResultOf(r, op) = "error") =>
        /\ Ended(r)
        /\ LastCall(r) = Call(op, "error")
        /\ CountOf(r, op) = 1
        /\ ~Invoked(r, "putParameter")
        /\ r \notin {writers[i] : i \in DOMAIN writers}
        /\ IsLatest(r) => ssm = before[r]

C15_Witness ==
  \E r, q \in Runs :
    /\ Invoked(r, "describeUserPool")
    /\ ResultOf(r, "describeUserPool") = "error"
    /\ Invoked(q, "describeUserPoolClient")
    /\ ResultOf(q, "describeUserPoolClient") = "error"
    /\ ssm # NoParameter


(***************************************************************************)
(* C16.  The read is lenient.  On ParameterNotFound the run goes on with   *)
(* the empty document and logs no error.  On any other error the failure   *)
(* is logged and the run goes on with the empty document all the same:     *)
(* once the secret is fetched it merges into the empty document, issues    *)
(* the put of {auth: {cognito: record}} and, when the put succeeds, that   *)
(* replaces whatever the store held.                                       *)
(***************************************************************************)
HasLine(r, line) == \E i \in DOMAIN log[r] : log[r][i] = line

ReadFailure == Line("error", "failed to get parameter")

RecordOnly(record) ==
  Obj(<<Member("auth", Obj(<<Member("cognito", record)>>))>>)

Exported == Line("info", "app client credentials have been exported")

C18_SuccessOnlyWhenWritten ==
  \A r \in Runs :
    /\ (Invoked(r, "putParameter") /\ ResultOf(r, "putParameter") = "error") =>
         /\ outcome[r] = "Failed"
         /\ HasLine(r, Line("error", "failed to put parameter"))
         /\ r \notin {writers[i] : i \in DOMAIN writers}
         /\ IsLatest(r) => ssm = before[r]
    /\ HasLine(r, Exported) =>
         (Invoked(r, "putParameter") /\ ResultOf(r, "putParameter") = "ok")


(***************************************************************************)
(* C19.  The put is an unconditional overwrite: whatever the parameter     *)
(* has become since the run's getParameter, the store after the run's      *)
(* successful put holds the merge of the document the run read, so a       *)
(* change made in between by another writer is lost, paths outside         *)
(* auth.cognito included.                                                  *)
(***************************************************************************)
LastWriter == writers[Len(writers)]
DocReadBy(r) == DocOf(readParam[r])

C19_LastWriterWins ==
  \A r \in Runs :
    (writers # <<>> /\ LastWriter = r) =>
      /\ ssm = Parameter(putParameterParams[r].Value, "String")
      /\ DocOf(ssm) = mergeApplicationConfig(DocReadBy(r), fetched[r]).val
      /\ PathsOutside(DocOf(ssm)) = PathsOutside(DocReadBy(r))

\* the other client changed the database setting after the run's read and
\* before its put; the put has brought the old setting back
C19_Witness ==
  \E r \in Runs :
    /\ writers # <<>> /\ LastWriter = r
    /\ \E i \in DOMAIN writers : writers[i] = OtherClient
    /\ readParam[r].present
    /\ overwritten[r] # readParam[r]
    /\ Get(DocOf(readParam[r]), "database") = Str("db")
    /\ Get(DocOf(overwritten[r]), "database") = OtherDatabase
    /\ Get(DocOf(ssm), "database") = Str("db")

(***************************************************************************)
(* C20.  As claimed: two interleaved runs, no other writer, no failing     *)
(* call, a parameter that is absent or holds JSON text: once both have     *)
(* ended the store holds the initial document with auth.cognito set to     *)
(* the provider's record, and at least one and at most two puts were made. *)
(***************************************************************************)
InitialParameter == before[order[1]]
NoOtherWriter == \A i \in DOMAIN writers : writers[i] # OtherClient
IsJson(parameter) == ~parameter.present \/ JSON_parse(parameter.Value).ok

BothEndedCleanly ==
  /\ \A r \in Runs : Ended(r) /\ NoCallFailed(r)
  /\ NoOtherWriter

Converged(r) ==
  /\ ssm.present
  /\ JSON_parse(ssm.Value).ok
  /\ Get(Get(DocOf(ssm), "auth"), "cognito") = ProviderRecord(r)
  /\ PathsOutside(DocOf(ssm)) = PathsOutside(DocOf(InitialParameter))

AlreadyCurrent(r) ==
  /\ HeldRecord(InitialParameter) # Undefined
  /\ SameRecord(HeldRecord(InitialParameter), ProviderRecord(r))

====
